---- MODULE Spec2Model ----
(***************************************************************************)
(* gpx_to_csv.py: the batch converter (__main__), the CSV export (to_csv), *)
(* the output-name rule (drop_extension) and the patched segment           *)
(* aggregator (get_moving_data, total_seconds).                            *)
(*                                                                         *)
(* Numbers.  Lengths are whole metres, timestamps whole seconds, so every  *)
(* timedelta has microseconds = 0.  A speed is a fraction <<num, den>>     *)
(* (metres over seconds, or km over hours after ms_to_kmh).  An Optional   *)
(* value is None (the empty tuple) or <<v>>.                               *)
(***************************************************************************)
EXTENDS Integers, Sequences, FiniteSets, TLC

VARIABLES
    \* __main__
    pc,               \* position of the run
    crash,            \* the exception that ended the run, "" while none has
    inputIsDir,       \* os.path.isdir(args.input)
    outputIsDir,      \* os.path.isdir(args.output)
    listing,          \* os.listdir(args.input) with each entry's content
    idx,              \* 1-based position of f in the listing
    opened,           \* positions of the input entries opened so far
    stdout,           \* lines printed
    outFiles,         \* the output directory: file name -> rows
    \* to_csv
    x,                \* the parsed document
    filename,         \* the target file name
    tIdx, kIdx, iIdx, \* loop positions: track (1-based), segment k, point i (0-based)
    moving_data, time_bounds, bounds,
    \* get_moving_data, one call on one segment
    md

mainVars == <<inputIsDir, outputIsDir, listing, idx, opened, stdout>>
csvVars  == <<x, filename, tIdx, kIdx, iIdx, moving_data, time_bounds, bounds>>
vars     == <<pc, crash, mainVars, outFiles, csvVars, md>>

----------------------------------------------------------------------------
(* Bounds of the model *)

MaxFiles     == 2   \* entries in the input directory
MaxNameLen   == 4   \* characters of a file name given to drop_extension
MaxDocPoints == 3   \* points of a document given to to_csv
MaxSegPoints == 3   \* points of a segment given to get_moving_data

----------------------------------------------------------------------------
(* Optional values and fractions *)

None == <<>>

Some(v) == <<v>>

Abs(n) == IF n < 0 THEN -n ELSE n

\* floor of the square root
ISqrt(n) == CHOOSE r \in 0..n : r * r <= n /\ (r + 1) * (r + 1) > n

\* a fraction is zero (a float 0.0 is falsy)
IsZero(q) == q[1] = 0

----------------------------------------------------------------------------
(* The object model: the parts of gpxpy the program calls *)

\* bool(point.time): a datetime is truthy, None is not
TimeTruthy(p) == p.time # None

\* bool(point.elevation): None and 0.0 are both falsy
ElevTruthy(p) == p.elevation # None /\ p.elevation[1] # 0

\* point.distance_2d(other): the points lie on one meridian, latitude in metres
distance_2d(p, q) == Abs(p.latitude - q.latitude)

\* point.distance_3d(other): the 2D distance when an elevation is missing or both
\* are equal, else the hypotenuse with the elevation difference
distance_3d(p, q) ==
    IF p.elevation = None \/ q.elevation = None \/ p.elevation = q.elevation
    THEN distance_2d(p, q)
    ELSE LET d  == distance_2d(p, q)
             de == p.elevation[1] - q.elevation[1]
         IN  ISqrt(d * d + de * de)

\* a - b for two datetimes: a normalised timedelta (0 <= seconds < 86400)
TimeDelta(a, b) ==
    [days |-> (a - b) \div 86400, seconds |-> (a - b) % 86400, microseconds |-> 0]

----------------------------------------------------------------------------
(* Pure functions of gpx_to_csv.py *)

\* ms_to_kmh(speed) for a number; on None the multiplication raises TypeError
ms_to_kmh(speed) == <<speed[1] * 60 * 60, speed[2] * 1000>>

\* str.split(sep): the fields between the separators
RECURSIVE split(_, _)
split(s, sep) ==
    IF \A j \in 1..Len(s) : s[j] # sep
    THEN <<s>>
    ELSE LET j == CHOOSE j \in 1..Len(s) : s[j] = sep /\ \A m \in 1..(j - 1) : s[m] # sep
         IN  <<SubSeq(s, 1, j - 1)>> \o split(SubSeq(s, j + 1, Len(s)), sep)

\* a variant that keeps the part after the last '.'
drop_extension_last(f) == LET parts == split(f, ".") IN parts[Len(parts)]

drop_extension(f) == split(f, ".")[1]

\* drop_extension(f) + '.csv', the name of the target inside args.output
TargetName(f) == drop_extension(f) \o <<".", "c", "s", "v">>

DEFAULT_STOPPED_SPEED_THRESHOLD == 1

\* total_seconds(timedelta), timedelta not None.  Timestamps are whole seconds, so
\* timedelta.microseconds = 0 and `if timedelta.microseconds > 0` adds nothing.
total_seconds(timedelta) == (timedelta.days * 86400) + timedelta.seconds

\* if not stopped_speed_threshold: stopped_speed_threshold = DEFAULT...
Threshold(stopped_speed_threshold) ==
    IF stopped_speed_threshold = None \/ stopped_speed_threshold[1] = 0
    THEN DEFAULT_STOPPED_SPEED_THRESHOLD
    ELSE stopped_speed_threshold[1]

\* speed_kmh <= threshold, speed_kmh = (distance / 1000.) / (seconds / 60. ** 2), seconds > 0
SpeedLeq(distance, seconds, threshold) == distance * 60 * 60 <= threshold * 1000 * seconds

\* the interval's distance: 3D when both elevations are truthy, else 2D
IntervalDistance(point, previous) ==
    IF ElevTruthy(point) /\ ElevTruthy(previous)
    THEN distance_3d(point, previous)
    ELSE distance_2d(point, previous)

\* the locals of get_moving_data before the loop (distance is unbound: None)
MDStart ==
    [moving_time |-> 0, stopped_time |-> 0, moving_distance |-> 0,
     stopped_distance |-> 0, speeds_and_distances |-> <<>>, distance |-> None]

\* the pair appended to speeds_and_distances
Sample(distance, seconds) == [speed |-> <<distance, seconds>>, distance |-> distance]

\* a variant with the two branches exchanged
Classify_swapped(a, distance, seconds, threshold) ==
    IF SpeedLeq(distance, seconds, threshold)
    THEN [a EXCEPT !.moving_time = @ + seconds, !.moving_distance = @ + distance]
    ELSE [a EXCEPT !.stopped_time = @ + seconds, !.stopped_distance = @ + distance]

\* if speed_kmh <= stopped_speed_threshold: stopped += ... else: moving += ...
Classify(a, distance, seconds, threshold) ==
    IF SpeedLeq(distance, seconds, threshold)
    THEN [a EXCEPT !.stopped_time = @ + seconds, !.stopped_distance = @ + distance]
    ELSE [a EXCEPT !.moving_time = @ + seconds, !.moving_distance = @ + distance]

\* a variant without the test of moving_time
CollectSample_always(a, distance, seconds) ==
    [a EXCEPT !.speeds_and_distances = Append(@, Sample(distance, seconds))]

\* if moving_time: speeds_and_distances.append((distance / seconds, distance, ))
CollectSample(a, distance, seconds) ==
    IF a.moving_time # 0
    THEN [a EXCEPT !.speeds_and_distances = Append(@, Sample(distance, seconds))]
    ELSE a

\* one iteration of `for i in range(1, len(self.points))` on the locals a
LoopBody(a, previous, point, threshold) ==
    IF TimeTruthy(point) /\ TimeTruthy(previous)
    THEN LET timedelta == TimeDelta(point.time[1], previous.time[1])
             distance  == IntervalDistance(point, previous)
             seconds   == total_seconds(timedelta)
             b == [a EXCEPT !.distance = Some(distance)]
         IN  IF seconds > 0      \* and distance is not None: the distance is a number
             THEN IF distance # 0
                  THEN CollectSample(Classify(b, distance, seconds, threshold),
                                     distance, seconds)
                  ELSE b
             ELSE b
    ELSE a

\* the loop from iteration i on
RECURSIVE LoopFrom(_, _, _, _)
LoopFrom(a, points, i, threshold) ==
    IF i > Len(points) - 1
    THEN a
    ELSE LoopFrom(LoopBody(a, points[i], points[i + 1], threshold), points, i + 1, threshold)

\* the four totals get_moving_data returns for a segment's points
SegmentMovingData(points, stopped_speed_threshold) ==
    LoopFrom(MDStart, points, 1, Threshold(stopped_speed_threshold))

----------------------------------------------------------------------------
(* The object model's per-segment and per-track queries that to_csv calls *)

\* point.speed_between(other): None without both times or with no time between them
speed_between(p, q) ==
    IF ~TimeTruthy(p) \/ ~TimeTruthy(q)
    THEN None
    ELSE LET seconds == Abs(p.time[1] - q.time[1])
         IN  IF seconds = 0 THEN None ELSE <<distance_3d(p, q), seconds>>

\* a speed that is neither None nor 0.0
SpeedTruthy(s) == s # None /\ ~IsZero(s)

\* segment.get_speed(i), i 0-based: the mean of the speeds to the neighbours, the
\* one that is non-zero, else whatever the speed to the next point is (None at the
\* last point)
get_speed(points, i) ==
    LET point   == points[i + 1]
        speed_1 == IF 0 < i /\ i < Len(points)
                   THEN speed_between(point, points[i]) ELSE None
        speed_2 == IF 0 <= i /\ i < Len(points) - 1
                   THEN speed_between(point, points[i + 2]) ELSE None
    IN  IF SpeedTruthy(speed_1) /\ SpeedTruthy(speed_2)
        THEN <<speed_1[1] * speed_2[2] + speed_2[1] * speed_1[2],
               2 * speed_1[2] * speed_2[2]>>
        ELSE IF SpeedTruthy(speed_1) THEN speed_1 ELSE speed_2

\* all the points of a track, segment after segment
RECURSIVE ConcatPoints(_)
ConcatPoints(segments) ==
    IF segments = <<>> THEN <<>>
    ELSE segments[1].points \o ConcatPoints(Tail(segments))

\* the four totals as to_csv reads them
Totals(a) ==
    [moving_time |-> a.moving_time, stopped_time |-> a.stopped_time,
     moving_distance |-> a.moving_distance, stopped_distance |-> a.stopped_distance]

AddTotals(a, b) ==
    [moving_time |-> a.moving_time + b.moving_time,
     stopped_time |-> a.stopped_time + b.stopped_time,
     moving_distance |-> a.moving_distance + b.moving_distance,
     stopped_distance |-> a.stopped_distance + b.stopped_distance]

RECURSIVE SumSegments(_)
SumSegments(segments) ==
    IF segments = <<>> THEN Totals(MDStart)
    ELSE AddTotals(Totals(SegmentMovingData(segments[1].points, None)),
                   SumSegments(Tail(segments)))

\* one pass of the segment algorithm over all the points of the track
TrackMovingData_onePass(track) ==
    Totals(SegmentMovingData(ConcatPoints(track.segments), None))

\* track.get_moving_data(): the track calls the (patched) segment method on each of
\* its segments, each with that segment's points only, and adds the results up
TrackMovingData(track) == SumSegments(track.segments)

\* the times of the timestamped points, in order
RECURSIVE TimesOf(_)
TimesOf(points) ==
    IF points = <<>> THEN <<>>
    ELSE (IF TimeTruthy(points[1]) THEN <<points[1].time>> ELSE <<>>)
         \o TimesOf(Tail(points))

\* track.get_time_bounds(): the first and the last timestamp met
TrackTimeBounds(track) ==
    LET ts == TimesOf(ConcatPoints(track.segments))
    IN  IF ts = <<>>
        THEN [start_time |-> None, end_time |-> None]
        ELSE [start_time |-> ts[1], end_time |-> ts[Len(ts)]]

\* track.get_bounds(): None for a track without points
TrackBounds(track) ==
    LET ps   == ConcatPoints(track.segments)
        lats == {ps[j].latitude : j \in 1..Len(ps)}
        lons == {ps[j].longitude : j \in 1..Len(ps)}
    IN  IF ps = <<>>
        THEN None
        ELSE <<[max_latitude  |-> CHOOSE v \in lats : \A w \in lats : w <= v,
                max_longitude |-> CHOOSE v \in lons : \A w \in lons : w <= v,
                min_latitude  |-> CHOOSE v \in lats : \A w \in lats : v <= w,
                min_longitude |-> CHOOSE v \in lons : \A w \in lons : v <= w]>>

----------------------------------------------------------------------------
(* to_csv: the header and one data row *)

fields ==
    <<"gpx_name", "trk_name", "trk_mov_time", "trk_mov_dist", "trk_start_time",
      "trk_end_time", "trk_max_lat", "trk_max_long", "trk_min_lat", "trk_min_long",
      "segment_num", "lat", "long", "ele", "time", "speed">>

\* a variant that writes the stopped totals in the two moving columns
Row_stoppedTotals(gpx_name, trk_name, mov, tb, b, k, point, speed_kmh) ==
    <<gpx_name, trk_name, mov.stopped_time, mov.stopped_distance,
      tb.start_time, tb.end_time,
      b.max_latitude, b.max_longitude, b.min_latitude, b.min_longitude,
      k, point.latitude, point.longitude, point.elevation, point.time, speed_kmh>>

\* the tuple given to writer.writerow for a point
Row(gpx_name, trk_name, mov, tb, b, k, point, speed_kmh) ==
    <<gpx_name, trk_name, mov.moving_time, mov.moving_distance,
      tb.start_time, tb.end_time,
      b.max_latitude, b.max_longitude, b.min_latitude, b.min_longitude,
      k, point.latitude, point.longitude, point.elevation, point.time, speed_kmh>>

----------------------------------------------------------------------------
(* Inputs *)

SeqsUpTo(S, n) == UNION {[1..m -> S] : m \in 0..n}

\* points handed to get_moving_data: on one meridian, at one of six places (latitude
\* in metres, elevation missing, zero or positive), time missing or one of three
\* instants
Lats  == {0, 6}
Times == {None, Some(0), Some(10), Some(30)}

Places ==
    {<<0, None>>, <<6, None>>, <<0, Some(0)>>, <<0, Some(8)>>, <<6, Some(8)>>,
     <<0, Some(16)>>}

SegPoints ==
    {[latitude |-> pl[1], longitude |-> 0, elevation |-> pl[2], time |-> t] :
        pl \in Places, t \in Times}

Thresholds == {None, Some(3)}

\* the j-th point of a document is recorded 10 s after the one before it; its time
\* and its elevation are present or missing
DocElevs == {None, Some(8)}

\* where a point starts: in the segment of the point before it, in a new segment of
\* the same track, or in a new track
Breaks == {"point", "segment", "track"}

TrackName(n) == IF n = 1 THEN "T1" ELSE IF n = 2 THEN "T2" ELSE "Tn"

RECURSIVE BuildTracks(_, _, _, _)
BuildTracks(tracks, pts, brk, j) ==
    IF j > Len(pts) THEN tracks
    ELSE LET n == Len(tracks) IN
         IF j = 1 \/ brk[j] = "track"
         THEN BuildTracks(Append(tracks, [name |-> TrackName(n + 1),
                                          segments |-> <<[points |-> <<pts[j]>>]>>]),
                          pts, brk, j + 1)
         ELSE IF brk[j] = "segment"
         THEN BuildTracks([tracks EXCEPT ![n].segments =
                               Append(@, [points |-> <<pts[j]>>])],
                          pts, brk, j + 1)
         ELSE BuildTracks([tracks EXCEPT
                               ![n].segments[Len(tracks[n].segments)].points =
                                   Append(@, pts[j])],
                          pts, brk, j + 1)

\* what may follow the last point: nothing, an empty segment, an empty track
Tails == {"none", "segment", "track"}

WithTail(tracks, tail) ==
    IF tail = "segment" /\ tracks # <<>>
    THEN [tracks EXCEPT ![Len(tracks)].segments = Append(@, [points |-> <<>>])]
    ELSE IF tail = "track"
    THEN Append(tracks, [name |-> TrackName(Len(tracks) + 1), segments |-> <<>>])
    ELSE tracks

Document(name, pts, brk, tail) ==
    [name |-> name, tracks |-> WithTail(BuildTracks(<<>>, pts, brk, 1), tail)]

\* the points of a document, from the latitude and elevation of each and whether it
\* is timestamped
DocPoints(lat, ele, timed) ==
    [j \in DOMAIN lat |->
        [latitude |-> lat[j], longitude |-> 0, elevation |-> ele[j],
         time |-> IF timed[j] THEN Some(10 * j) ELSE None]]

\* names of the entries of the input directory
EntryNames ==
    {<<"a">>, <<"a", ".", "g">>, <<"a", ".", "b", ".", "g">>, <<"b", ".", "g">>,
     <<".", "g">>}

\* file names given to drop_extension
Chars == {"a", "b", "."}
Names == SeqsUpTo(Chars, MaxNameLen)

\* what an input entry holds: a file gpxpy cannot parse, or a document
Malformed == [name |-> "", tracks |-> <<>>, malformed |-> TRUE]

P(lat, t) == [latitude |-> lat, longitude |-> 0, elevation |-> None, time |-> t]

Parsed(doc) == [name |-> doc.name, tracks |-> doc.tracks, malformed |-> FALSE]

BatchContents ==
    {Malformed,
     Parsed(Document("walk", <<P(0, Some(10)), P(6, Some(20))>>,
                     <<"point", "point">>, "none")),
     Parsed(Document("fix", <<P(0, Some(10))>>, <<"point">>, "none"))}

Listings ==
    {l \in SeqsUpTo([name : EntryNames, content : BatchContents], MaxFiles) :
        \A a, b \in 1..Len(l) : a # b => l[a].name # l[b].name}

IdleMD == [pc |-> "idle", points |-> <<>>, stopped_speed_threshold |-> None,
           i |-> 0, a |-> MDStart, max_speed |-> None]

NoDoc == [name |-> "", tracks |-> <<>>]

NoTotals == Totals(MDStart)

NoTimeBounds == [start_time |-> None, end_time |-> None]

----------------------------------------------------------------------------
(* to_csv(x, filename) *)

\* with open(filename, 'w') as file: the file is created, or emptied if it exists;
\* open raises when the directory of the target is not there
ToCsvOpen ==
    /\ pc = "to_csv"
    /\ IF outputIsDir
       THEN /\ outFiles' = [n \in DOMAIN outFiles \cup {filename} |->
                               IF n = filename THEN <<>> ELSE outFiles[n]]
            /\ pc' = "header"
            /\ crash' = crash
       ELSE /\ pc' = "crashed"
            /\ crash' = "FileNotFoundError"
            /\ outFiles' = outFiles
    /\ UNCHANGED <<mainVars, csvVars, md>>

\* writer.writerow(fields)
WriteHeader ==
    /\ pc = "header"
    /\ outFiles' = [outFiles EXCEPT ![filename] = Append(@, fields)]
    /\ tIdx' = 1
    /\ pc' = "for_track"
    /\ UNCHANGED <<crash, mainVars, x, filename, kIdx, iIdx, moving_data,
                   time_bounds, bounds, md>>

\* for track in x.tracks: the three per-track queries
ForTrack ==
    /\ pc = "for_track"
    /\ tIdx <= Len(x.tracks)
    /\ moving_data' = TrackMovingData(x.tracks[tIdx])
    /\ time_bounds' = TrackTimeBounds(x.tracks[tIdx])
    /\ bounds' = TrackBounds(x.tracks[tIdx])
    /\ kIdx' = 0
    /\ pc' = "for_segment"
    /\ UNCHANGED <<crash, mainVars, outFiles, x, filename, tIdx, iIdx, md>>

\* x.tracks is exhausted: the with block closes the file and to_csv returns
ToCsvReturn ==
    /\ pc = "for_track"
    /\ tIdx > Len(x.tracks)
    /\ pc' = "returned"
    /\ UNCHANGED <<crash, mainVars, outFiles, csvVars, md>>

\* for k, segment in enumerate(track.segments)
ForSegment ==
    /\ pc = "for_segment"
    /\ kIdx < Len(x.tracks[tIdx].segments)
    /\ iIdx' = 0
    /\ pc' = "for_point"
    /\ UNCHANGED <<crash, mainVars, outFiles, x, filename, tIdx, kIdx, moving_data,
                   time_bounds, bounds, md>>

EndTrack ==
    /\ pc = "for_segment"
    /\ kIdx >= Len(x.tracks[tIdx].segments)
    /\ tIdx' = tIdx + 1
    /\ pc' = "for_track"
    /\ UNCHANGED <<crash, mainVars, outFiles, x, filename, kIdx, iIdx, moving_data,
                   time_bounds, bounds, md>>

CurrentPoints == x.tracks[tIdx].segments[kIdx + 1].points

\* for i, point in enumerate(segment.points): one row, when get_speed gives a number
WriteRow ==
    /\ pc = "for_point"
    /\ iIdx < Len(CurrentPoints)
    /\ get_speed(CurrentPoints, iIdx) # None
    /\ LET speed_kmh == ms_to_kmh(get_speed(CurrentPoints, iIdx))
       IN  outFiles' = [outFiles EXCEPT ![filename] =
               Append(@, Row(x.name, x.tracks[tIdx].name, moving_data, time_bounds,
                             bounds[1], kIdx, CurrentPoints[iIdx + 1], speed_kmh))]
    /\ iIdx' = iIdx + 1
    /\ UNCHANGED <<pc, crash, mainVars, x, filename, tIdx, kIdx, moving_data,
                   time_bounds, bounds, md>>

\* ms_to_kmh(None): None * 60 raises TypeError, which leaves to_csv (the with block
\* closes the file with the rows written so far) and nothing catches it
RowTypeError ==
    /\ pc = "for_point"
    /\ iIdx < Len(CurrentPoints)
    /\ get_speed(CurrentPoints, iIdx) = None
    /\ pc' = "crashed"
    /\ crash' = "TypeError"
    /\ UNCHANGED <<mainVars, outFiles, csvVars, md>>

EndSegment ==
    /\ pc = "for_point"
    /\ iIdx >= Len(CurrentPoints)
    /\ kIdx' = kIdx + 1
    /\ pc' = "for_segment"
    /\ UNCHANGED <<crash, mainVars, outFiles, x, filename, tIdx, iIdx, moving_data,
                   time_bounds, bounds, md>>

ToCsv ==
    \/ ToCsvOpen
    \/ WriteHeader
    \/ ForTrack
    \/ ToCsvReturn
    \/ ForSegment
    \/ EndTrack
    \/ WriteRow
    \/ RowTypeError
    \/ EndSegment

----------------------------------------------------------------------------
(* __main__ *)

\* a variant without the second assert
PreconditionsHold_inputOnly == inputIsDir

\* assert os.path.isdir(args.input); assert os.path.isdir(args.output)
PreconditionsHold == inputIsDir /\ outputIsDir

AssertFail ==
    /\ pc = "start"
    /\ ~PreconditionsHold
    /\ pc' = "crashed"
    /\ crash' = "AssertionError"
    /\ UNCHANGED <<mainVars, outFiles, csvVars, md>>

AssertPass ==
    /\ pc = "start"
    /\ PreconditionsHold
    /\ pc' = "for_f"
    /\ UNCHANGED <<crash, mainVars, outFiles, csvVars, md>>

\* for f in os.listdir(args.input): gpx_file = open(os.path.join(args.input, f), 'r')
OpenInput ==
    /\ pc = "for_f"
    /\ idx <= Len(listing)
    /\ opened' = opened \cup {idx}
    /\ pc' = "parse"
    /\ UNCHANGED <<crash, inputIsDir, outputIsDir, listing, idx, stdout, outFiles,
                   csvVars, md>>

\* gpx = gpxpy.parse(gpx_file); target_file = ...; to_csv(gpx, target_file) is entered
ParseOk ==
    /\ pc = "parse"
    /\ ~listing[idx].content.malformed
    /\ x' = [name |-> listing[idx].content.name, tracks |-> listing[idx].content.tracks]
    /\ filename' = TargetName(listing[idx].name)
    /\ pc' = "to_csv"
    /\ UNCHANGED <<crash, mainVars, outFiles, tIdx, kIdx, iIdx, moving_data,
                   time_bounds, bounds, md>>

\* a variant that skips the entry and goes on
ParseFail_skip ==
    /\ pc = "parse"
    /\ listing[idx].content.malformed
    /\ idx' = idx + 1
    /\ pc' = "for_f"
    /\ UNCHANGED <<crash, inputIsDir, outputIsDir, listing, opened, stdout, outFiles,
                   csvVars, md>>

\* gpxpy.parse raises on a file that is not GPX; nothing catches it
ParseFail ==
    /\ pc = "parse"
    /\ listing[idx].content.malformed
    /\ pc' = "crashed"
    /\ crash' = "GPXException"
    /\ UNCHANGED <<mainVars, outFiles, csvVars, md>>

\* print('Wrote to {}'.format(target_file)), and on to the next entry
PrintWrote ==
    /\ pc = "returned"
    /\ stdout' = Append(stdout, <<"Wrote to", filename>>)
    /\ idx' = idx + 1
    /\ pc' = "for_f"
    /\ UNCHANGED <<crash, inputIsDir, outputIsDir, listing, opened, outFiles,
                   csvVars, md>>

\* the listing is exhausted: print('Done.')
PrintDone ==
    /\ pc = "for_f"
    /\ idx > Len(listing)
    /\ stdout' = Append(stdout, <<"Done.", <<>>>>)
    /\ pc' = "done"
    /\ UNCHANGED <<crash, inputIsDir, outputIsDir, listing, idx, opened, outFiles,
                   csvVars, md>>

Init ==
    /\ pc = "start"
    /\ crash = ""
    /\ inputIsDir \in BOOLEAN
    /\ outputIsDir \in BOOLEAN
    /\ listing \in (IF inputIsDir THEN Listings ELSE {<<>>})
    /\ idx = 1
    /\ opened = {}
    /\ stdout = <<>>
    /\ outFiles = [n \in {} |-> <<>>]
    /\ x = NoDoc
    /\ filename = <<>>
    /\ tIdx = 0 /\ kIdx = 0 /\ iIdx = 0
    /\ moving_data = NoTotals
    /\ time_bounds = NoTimeBounds
    /\ bounds = None
    /\ md = IdleMD

Next ==
    \/ AssertFail
    \/ AssertPass
    \/ OpenInput
    \/ ParseOk
    \/ ParseFail
    \/ ToCsv
    \/ PrintWrote
    \/ PrintDone

Spec == Init /\ [][Next]_vars

----------------------------------------------------------------------------
(* to_csv alone, on every document of the bounded set *)

InitCsv ==
    /\ pc = "to_csv"
    /\ crash = ""
    /\ inputIsDir = TRUE
    /\ outputIsDir = TRUE
    /\ listing = <<>>
    /\ idx = 1
    /\ opened = {}
    /\ stdout = <<>>
    /\ outFiles = [n \in {} |-> <<>>]
    /\ \E n \in 0..MaxDocPoints :
         \E lat \in [1..n -> Lats], ele \in [1..n -> DocElevs],
            timed \in [1..n -> BOOLEAN], brk \in [1..n -> Breaks], tail \in Tails :
             x = Document("doc", DocPoints(lat, ele, timed), brk, tail)
    /\ filename = <<"o", ".", "c", "s", "v">>
    /\ tIdx = 0 /\ kIdx = 0 /\ iIdx = 0
    /\ moving_data = NoTotals
    /\ time_bounds = NoTimeBounds
    /\ bounds = None
    /\ md = IdleMD

SpecCsv == InitCsv /\ [][ToCsv]_vars

----------------------------------------------------------------------------
(* get_moving_data alone, on every segment of the bounded set *)

\* what calculate_max_speed may return for a non-empty sample list: None (too few
\* samples) or one of the sampled speeds
MaxSpeedOutcomes(samples) ==
    {None} \cup {samples[j].speed : j \in 1..Len(samples)}

\* one iteration: previous = self.points[i - 1], point = self.points[i]
MDIterate ==
    /\ md.pc = "loop"
    /\ md.i < Len(md.points)
    /\ md' = [md EXCEPT !.a = LoopBody(md.a, md.points[md.i], md.points[md.i + 1],
                                       Threshold(md.stopped_speed_threshold)),
                        !.i = md.i + 1]
    /\ UNCHANGED <<pc, crash, mainVars, outFiles, csvVars>>

\* after the loop: max_speed, and MovingData(..., max_speed or 0.0)
MDReturn ==
    /\ md.pc = "loop"
    /\ md.i >= Len(md.points)
    /\ \E m \in (IF md.a.speeds_and_distances # <<>>
                 THEN MaxSpeedOutcomes(md.a.speeds_and_distances) ELSE {None}) :
           md' = [md EXCEPT !.max_speed = IF SpeedTruthy(m) THEN m ELSE <<0, 1>>,
                            !.pc = "done"]
    /\ UNCHANGED <<pc, crash, mainVars, outFiles, csvVars>>

InitMD ==
    /\ pc = "get_moving_data"
    /\ crash = ""
    /\ inputIsDir = TRUE
    /\ outputIsDir = TRUE
    /\ listing = <<>>
    /\ idx = 1
    /\ opened = {}
    /\ stdout = <<>>
    /\ outFiles = [n \in {} |-> <<>>]
    /\ x = NoDoc
    /\ filename = <<>>
    /\ tIdx = 0 /\ kIdx = 0 /\ iIdx = 0
    /\ moving_data = NoTotals
    /\ time_bounds = NoTimeBounds
    /\ bounds = None
    /\ \E n \in 0..MaxSegPoints :
         \E points \in [1..n -> SegPoints], t \in Thresholds :
             md = [pc |-> "loop", points |-> points, stopped_speed_threshold |-> t,
                   i |-> 1, a |-> MDStart, max_speed |-> None]

NextMD == MDIterate \/ MDReturn

SpecMD == InitMD /\ [][NextMD]_vars

----------------------------------------------------------------------------
(* drop_extension alone, on every name of the bounded set *)

\* target_file = os.path.join(args.output, drop_extension(f) + '.csv')
DeriveTarget ==
    /\ pc = "drop_extension"
    /\ filename' = TargetName(listing[1].name)
    /\ pc' = "named"
    /\ UNCHANGED <<crash, mainVars, outFiles, x, tIdx, kIdx, iIdx, moving_data,
                   time_bounds, bounds, md>>

InitName ==
    /\ pc = "drop_extension"
    /\ crash = ""
    /\ inputIsDir = TRUE
    /\ outputIsDir = TRUE
    /\ \E f \in Names : listing = <<[name |-> f, content |-> Malformed]>>
    /\ idx = 1
    /\ opened = {}
    /\ stdout = <<>>
    /\ outFiles = [n \in {} |-> <<>>]
    /\ x = NoDoc
    /\ filename = <<>>
    /\ tIdx = 0 /\ kIdx = 0 /\ iIdx = 0
    /\ moving_data = NoTotals
    /\ time_bounds = NoTimeBounds
    /\ bounds = None
    /\ md = IdleMD

SpecName == InitName /\ [][DeriveTarget]_vars

----------------------------------------------------------------------------
(* What the claims speak of *)

\* the rows of the target: <<>> while it does not exist
TargetRows == IF filename \in DOMAIN outFiles THEN outFiles[filename] ELSE <<>>

RECURSIVE Flatten(_)
Flatten(ss) == IF Len(ss) = 0 THEN <<>> ELSE Head(ss) \o Flatten(Tail(ss))

NumPoints(doc) ==
    Len(Flatten([t \in 1..Len(doc.tracks) |-> ConcatPoints(doc.tracks[t].segments)]))

\* track name, segment number and point of every point, in document order
SegmentKeys(track, k) ==
    [i \in 1..Len(track.segments[k].points) |->
        LET p == track.segments[k].points[i]
        IN  <<track.name, k - 1, p.latitude, p.longitude, p.elevation, p.time>>]

TrackKeys(track) == Flatten([k \in 1..Len(track.segments) |-> SegmentKeys(track, k)])

DocKeys(doc) == Flatten([t \in 1..Len(doc.tracks) |-> TrackKeys(doc.tracks[t])])

\* the same six fields of a data row
RowKey(row) == <<row[2], row[11], row[12], row[13], row[14], row[15]>>

\* the track of the document a data row names
TrackOfRow(row) ==
    x.tracks[CHOOSE t \in 1..Len(x.tracks) : x.tracks[t].name = row[2]]

\* to_csv has ended, by returning or by raising
ToCsvEnded == pc = "returned" \/ (pc = "crashed" /\ crash = "TypeError")

\* C1: missing timestamps or elevations never stop the export: to_csv never raises,
\* and when it has returned the file holds one data row for each point.
C1_MissingDataNeverStopsExport ==
    /\ crash # "TypeError"
    /\ pc = "returned" => Len(TargetRows) = 1 + NumPoints(x)

\* C2: for every document, once to_csv has ended the file holds the header row and
\* then exactly one data row per point, in document order.
C2_HeaderThenOneRowPerPoint ==
    ToCsvEnded =>
        /\ Len(TargetRows) = 1 + NumPoints(x)
        /\ TargetRows[1] = fields
        /\ \A r \in 2..Len(TargetRows) : RowKey(TargetRows[r]) = DocKeys(x)[r - 1]

\* C3 as stated: every data row's trk_mov_time and trk_mov_dist are those of one
\* pass of the moving-data algorithm over the concatenation of the track's segments.
C3_OnePassOverConcatenation ==
    \A r \in 2..Len(TargetRows) :
        LET one == TrackMovingData_onePass(TrackOfRow(TargetRows[r]))
        IN  /\ TargetRows[r][3] = one.moving_time
            /\ TargetRows[r][4] = one.moving_distance

\* the moving time and the moving distance of each segment alone, added up
RECURSIVE SumMovingTime(_, _)
SumMovingTime(track, k) ==
    IF k = 0 THEN 0
    ELSE SegmentMovingData(track.segments[k].points, None).moving_time
         + SumMovingTime(track, k - 1)

RECURSIVE SumMovingDistance(_, _)
SumMovingDistance(track, k) ==
    IF k = 0 THEN 0
    ELSE SegmentMovingData(track.segments[k].points, None).moving_distance
         + SumMovingDistance(track, k - 1)

\* C3 amended: every data row's trk_mov_time and trk_mov_dist are the sums, over the
\* track's segments, of the moving time and moving distance get_moving_data gives for
\* each segment alone; the interval between two segments is not counted.
C3_SumOfSegments ==
    \A r \in 2..Len(TargetRows) :
        LET track == TrackOfRow(TargetRows[r])
        IN  /\ TargetRows[r][3] = SumMovingTime(track, Len(track.segments))
            /\ TargetRows[r][4] = SumMovingDistance(track, Len(track.segments))

\* a row has been written for a track of several segments whose one-pass moving time
\* differs from the sum over its segments, and the sum is not zero
C3_Witness ==
    /\ Len(TargetRows) >= 2
    /\ LET track == TrackOfRow(TargetRows[2])
       IN  /\ Len(track.segments) >= 2
           /\ TargetRows[2][3] > 0
           /\ TrackMovingData_onePass(track).moving_time # TargetRows[2][3]

\* the interval that ends at point j + 1 of the segment given to get_moving_data
Prev(j) == md.points[j]
Pt(j)   == md.points[j + 1]

BothTimed(j) == Prev(j).time # None /\ Pt(j).time # None

Elapsed(j) == Pt(j).time[1] - Prev(j).time[1]

\* the distance get_moving_data measures on interval j
Measured(j) == IntervalDistance(Pt(j), Prev(j))

\* the threshold in force, km/h
InForce == Threshold(md.stopped_speed_threshold)

\* C4: on every interval between two timestamped points the distance is the 3D
\* distance if and only if both endpoints have an elevation (whatever its value), and
\* the 2D distance otherwise.  Stated of the interval the loop has just processed.
C4_3DIffBothElevationsPresent ==
    (md.pc # "idle" /\ md.i >= 2 /\ BothTimed(md.i - 1)) =>
        md.a.distance =
            Some(IF Prev(md.i - 1).elevation # None /\ Pt(md.i - 1).elevation # None
                 THEN distance_3d(Pt(md.i - 1), Prev(md.i - 1))
                 ELSE distance_2d(Pt(md.i - 1), Prev(md.i - 1)))

\* every point is timestamped and the timestamps do not decrease
TimedAndOrdered ==
    /\ \A j \in 1..Len(md.points) : md.points[j].time # None
    /\ \A j \in 1..(Len(md.points) - 1) : Elapsed(j) >= 0

\* the speed of interval j is below the threshold: (d / 1000) / (s / 3600) < threshold
SpeedBelow(j) == Elapsed(j) > 0 /\ Measured(j) * 3600 < InForce * 1000 * Elapsed(j)

TotalElapsed == md.points[Len(md.points)].time[1] - md.points[1].time[1]

NotSkipped(j) == BothTimed(j) /\ Elapsed(j) > 0

\* interval j is classified moving
Moving(j) ==
    /\ NotSkipped(j)
    /\ Measured(j) # 0
    /\ Measured(j) * 3600 > InForce * 1000 * Elapsed(j)

\* moving_time is non-zero once interval j is processed
MovingTimeNonZero(j) == \E m \in 1..j : Moving(m)

\* one sample for each of the first n intervals that is in the set S, in order
RECURSIVE SamplesOf(_, _)
SamplesOf(n, S) ==
    IF n = 0 THEN <<>>
    ELSE SamplesOf(n - 1, S)
         \o (IF n \in S THEN <<Sample(Measured(n), Elapsed(n))>> ELSE <<>>)

ContributesAsStated(j) == NotSkipped(j) /\ MovingTimeNonZero(j)

ContributesNonZero(j) == NotSkipped(j) /\ Measured(j) # 0 /\ MovingTimeNonZero(j)

NoSampleNoSpeed ==
    (md.pc = "done" /\ md.a.speeds_and_distances = <<>>) => md.max_speed = <<0, 1>>

\* C10 as stated: the samples collected so far are, in order, one (distance/elapsed,
\* distance) pair for every non-skipped interval processed while moving_time is
\* non-zero (the interval itself counted), moving or stopped, and none for the
\* others; with no sample max_speed is 0.0.
C10_SampleWhileMovingTimeNonZero ==
    /\ md.pc # "idle" => md.a.speeds_and_distances = SamplesOf(md.i - 1, {j \in 1..(md.i - 1) : ContributesAsStated(j)})
    /\ NoSampleNoSpeed

\* C10 amended: the same for the non-skipped intervals of non-zero distance; an
\* interval of zero distance contributes no sample.
C10_SampleNonZeroDistance ==
    /\ md.pc # "idle" => md.a.speeds_and_distances = SamplesOf(md.i - 1, {j \in 1..(md.i - 1) : ContributesNonZero(j)})
    /\ NoSampleNoSpeed

\* an interval classified stopped has been sampled after a moving one
C10_Witness ==
    /\ md.pc = "done"
    /\ Len(md.points) = 3
    /\ Moving(1)
    /\ NotSkipped(2) /\ Measured(2) # 0 /\ ~Moving(2)
    /\ Len(md.a.speeds_and_distances) = 2

\* the target of entry j of the listing
TargetOf(j) == TargetName(listing[j].name)

\* the last entry before k that writes to the target n
LastWriter(n, k) ==
    CHOOSE j \in 1..(k - 1) :
        TargetOf(j) = n /\ \A m \in (j + 1)..(k - 1) : TargetOf(m) # n

\* the output directory is as the entries before k left it: one file per target, each
\* holding the header and one row per point of the document last written to it
AsWrittenBefore(k) ==
    /\ DOMAIN outFiles = {TargetOf(j) : j \in 1..(k - 1)}
    /\ \A n \in DOMAIN outFiles :
           LET doc == listing[LastWriter(n, k)].content
           IN  /\ Len(outFiles[n]) = 1 + NumPoints(doc)
               /\ outFiles[n][1] = fields
               /\ \A r \in 2..Len(outFiles[n]) : outFiles[n][r][1] = doc.name

\* C6: when parsing entry k fails the run ends there: no entry after k is opened,
\* nothing is printed for k or a later entry ('Wrote to' lines exist for the entries
\* before k only, 'Done.' is never printed), no file is created or written for k, and
\* the files of the entries before k stay as written.
C6_ParseFailureEndsTheRun ==
    \A k \in opened :
        listing[k].content.malformed =>
            /\ \A j \in opened : j <= k
            /\ pc \in {"parse", "crashed"}
            /\ Len(stdout) = k - 1
            /\ \A j \in 1..Len(stdout) : stdout[j] = <<"Wrote to", TargetOf(j)>>
            /\ AsWrittenBefore(k)

\* the second entry failed to parse after the first one was written
C6_Witness ==
    /\ pc = "crashed"
    /\ crash = "GPXException"
    /\ idx = 2
    /\ Len(listing) = 2
    /\ Len(stdout) = 1
    /\ DOMAIN outFiles # {}

\* C7: when the input path or the output path is not a directory, the run stops
\* before any entry is listed, opened or parsed and before any output file exists.
C7_PreconditionFailureBeforeAnyFile ==
    ~(inputIsDir /\ outputIsDir) =>
        /\ pc \in {"start", "crashed"}
        /\ pc = "crashed" => crash = "AssertionError"
        /\ opened = {}
        /\ x = NoDoc
        /\ DOMAIN outFiles = {}
        /\ stdout = <<>>

\* the run has stopped on the assertion about the output path, entries waiting
C7_Witness ==
    /\ pc = "crashed"
    /\ crash = "AssertionError"
    /\ inputIsDir /\ ~outputIsDir
    /\ listing # <<>>

\* C8: distinct entries have distinct targets, so a completed batch leaves one CSV
\* per input file, each holding the rows of its own entry's document.
C8_OneCsvPerInputFile ==
    pc = "done" =>
        /\ \A a, b \in 1..Len(listing) : a # b => TargetOf(a) # TargetOf(b)
        /\ Cardinality(DOMAIN outFiles) = Len(listing)
        /\ \A j \in 1..Len(listing) :
               \A r \in 2..Len(outFiles[TargetOf(j)]) :
                   outFiles[TargetOf(j)][r][1] = listing[j].content.name

\* C9: the derived name is the part of the file name before its first '.' (the whole
\* name when it has none), which holds no '.', followed by '.csv'; 'track.gpx' gives
\* 'track' and 'a.b.gpx' gives 'a'.
C9_PrefixBeforeFirstDot ==
    /\ pc = "named" =>
           LET f == listing[1].name
           IN  \E n \in 0..Len(f) :
                   /\ filename = SubSeq(f, 1, n) \o <<".", "c", "s", "v">>
                   /\ \A j \in 1..n : f[j] # "."
                   /\ n = Len(f) \/ f[n + 1] = "."
    /\ drop_extension(<<"t", "r", "a", "c", "k", ".", "g", "p", "x">>)
           = <<"t", "r", "a", "c", "k">>
    /\ drop_extension(<<"a", ".", "b", ".", "g", "p", "x">>) = <<"a">>

\* a name with two dots after a first letter has been turned into a target
C9_Witness ==
    /\ pc = "named"
    /\ Len(listing[1].name) = 4
    /\ listing[1].name[1] # "."
    /\ Cardinality({j \in 1..Len(listing[1].name) : listing[1].name[j] = "."}) = 2
    /\ Len(filename) = 5

====
